---- MODULE Spec2Model ----
(***************************************************************************)
(* State-machine model of src/app.py (RockDetector): the file-backed       *)
(* training pipeline (train_ml_model, auto_retrain_model), the three       *)
(* detection strategies (analyze_code_with_ml, analyze_code_with_ast,      *)
(* compare_with_fstec) and the signature-store refresh (update_fstec_db).  *)
(*                                                                         *)
(* Files are variables; every handler is split at its storage I/O calls,   *)
(* so that the states between two writes of one handler are states of the  *)
(* model.  Library calls (pandas, scikit-learn, json, ast) are modelled by *)
(* what they do on the bounded inputs drawn here.                          *)
(***************************************************************************)
EXTENDS Integers, Sequences, FiniteSets, TLC

\* ------------------------------------------------------------------ bounds
\* longest snippet, in tokens, handed to the rule engine
MaxLen == 6
\* most rows of the dataset file
MaxData == 6
\* most handler invocations in one behaviour
MaxCalls == 2

\* ============================================================ RULE ENGINE
\* A snippet is its token sequence (tokens separated by blanks in the text).
Names == {"eval", "f"}
Tokens == Names \cup {".", "(", ")"}

\* ast node constructors (the fields ast.iter_child_nodes visits, in order)
Load == [type |-> "Load"]
NameNode(id) == [type |-> "Name", id |-> id, ctx |-> Load]
TupleNode == [type |-> "Tuple", elts |-> <<>>, ctx |-> Load]
AttributeNode(value, attr) == [type |-> "Attribute", value |-> value, attr |-> attr, ctx |-> Load]
CallNode(func, args) == [type |-> "Call", func |-> func, args |-> args]
ExprNode(value) == [type |-> "Expr", value |-> value]
ModuleNode(body) == [type |-> "Module", body |-> body]

ParseFail == [ok |-> FALSE, node |-> Load, rest |-> <<>>]
ParseOk(node, rest) == [ok |-> TRUE, node |-> node, rest |-> rest]
NextIs(toks, t) == toks # <<>> /\ Head(toks) = t

\* Python's expression grammar restricted to Tokens:
\*   expr    ::= atom trailer*
\*   atom    ::= NAME | "(" ")" | "(" expr ")"
\*   trailer ::= "(" ")" | "(" expr ")" | "." NAME
RECURSIVE ParseExpr(_), ParseAtom(_), ParseTrailers(_)
ParseAtom(toks) ==
  IF toks = <<>> THEN ParseFail
  ELSE IF Head(toks) \in Names THEN ParseOk(NameNode(Head(toks)), Tail(toks))
  ELSE IF Head(toks) = "(" THEN
    IF NextIs(Tail(toks), ")") THEN ParseOk(TupleNode, Tail(Tail(toks)))
    ELSE LET r == ParseExpr(Tail(toks))
         IN  IF r.ok /\ NextIs(r.rest, ")") THEN ParseOk(r.node, Tail(r.rest))
             ELSE ParseFail
  ELSE ParseFail

ParseTrailers(r) ==
  IF ~r.ok \/ r.rest = <<>> THEN r
  ELSE IF Head(r.rest) = "(" THEN
    IF NextIs(Tail(r.rest), ")")
    THEN ParseTrailers(ParseOk(CallNode(r.node, <<>>), Tail(Tail(r.rest))))
    ELSE LET a == ParseExpr(Tail(r.rest))
         IN  IF a.ok /\ NextIs(a.rest, ")")
             THEN ParseTrailers(ParseOk(CallNode(r.node, <<a.node>>), Tail(a.rest)))
             ELSE ParseFail
  ELSE IF Head(r.rest) = "." THEN
    IF Tail(r.rest) # <<>> /\ Head(Tail(r.rest)) \in Names
    THEN ParseTrailers(ParseOk(AttributeNode(r.node, Head(Tail(r.rest))), Tail(Tail(r.rest))))
    ELSE ParseFail
  ELSE r

ParseExpr(toks) == ParseTrailers(ParseAtom(toks))

\* ast.parse: the empty text is an empty module; otherwise one expression
\* statement that consumes the whole text, or SyntaxError.
ast_parse(toks) ==
  IF toks = <<>> THEN [ok |-> TRUE, tree |-> ModuleNode(<<>>)]
  ELSE LET r == ParseExpr(toks)
       IN  IF r.ok /\ r.rest = <<>>
           THEN [ok |-> TRUE, tree |-> ModuleNode(<<ExprNode(r.node)>>)]
           ELSE [ok |-> FALSE, tree |-> ModuleNode(<<>>)]

\* ast.iter_child_nodes
iter_child_nodes(n) ==
  CASE n.type = "Module"    -> n.body
    [] n.type = "Expr"      -> <<n.value>>
    [] n.type = "Call"      -> <<n.func>> \o n.args
    [] n.type = "Attribute" -> <<n.value, n.ctx>>
    [] n.type = "Name"      -> <<n.ctx>>
    [] n.type = "Tuple"     -> <<n.ctx>>
    [] OTHER                -> <<>>

\* ast.walk: breadth-first over a deque
RECURSIVE walk_todo(_)
walk_todo(todo) ==
  IF todo = <<>> THEN <<>>
  ELSE <<Head(todo)>> \o walk_todo(Tail(todo) \o iter_child_nodes(Head(todo)))

ast_walk(tree) == walk_todo(<<tree>>)

\* (variant that omits the comparison of line 125: any call of a bare name)
IsEvalCallMut(node) ==
  node.type = "Call" /\ "id" \in DOMAIN node.func

\* the test of lines 124-125 on one node
IsEvalCall(node) ==
  /\ node.type = "Call"
  /\ "id" \in DOMAIN node.func
  /\ node.func.id = "eval"

analyze_code_with_ast(code_snippet) ==
  LET p == ast_parse(code_snippet)
  IN  IF ~p.ok THEN "ParseError"
      ELSE LET nodes == ast_walk(p.tree)
           IN  IF \E i \in 1..Len(nodes) : IsEvalCall(nodes[i])
               THEN "Flagged"
               ELSE "Clean"

\* ====================================================== PERSISTED DATA
\* A code text is its token sequence; a CSV row holds a code text and a label.
EvalCode == <<"eval", "(", "f", ")">>
NaCode == <<"NA">>
FeedbackRows ==
  { [code |-> EvalCode, label |-> "unsafe"],
    [code |-> EvalCode, label |-> "safe"],
    [code |-> NaCode,   label |-> "safe"],
    [code |-> EvalCode, label |-> ""] }

\* pandas.read_csv: the texts parsed as a missing value (default na_values)
NaValues ==
  { "", "#N/A", "#N/A N/A", "#NA", "-1.#IND", "-1.#QNAN", "-NaN", "-nan",
    "1.#IND", "1.#QNAN", "<NA>", "N/A", "NA", "NULL", "NaN", "None", "n/a",
    "nan", "null" }

IsNaCode(code) == code = <<>> \/ (Len(code) = 1 /\ code[1] \in NaValues)
IsNaLabel(label) == label \in NaValues

\* a DataFrame cell: a value or NaN
NaCodeCell == [na |-> TRUE, v |-> <<>>]
NaLabelCell == [na |-> TRUE, v |-> ""]
Cell(v) == [na |-> FALSE, v |-> v]

NoDataset == [exists |-> FALSE, rows |-> <<>>]
DatasetOf(rows) == [exists |-> TRUE, rows |-> rows]

\* pd.read_csv(DATASET_FILE) on an existing file
read_csv(rows) ==
  [i \in 1..Len(rows) |->
     [code  |-> IF IsNaCode(rows[i].code) THEN NaCodeCell ELSE Cell(rows[i].code),
      label |-> IF IsNaLabel(rows[i].label) THEN NaLabelCell ELSE Cell(rows[i].label)]]

\* df.to_csv(DATASET_FILE, index=False): NaN is written as the empty text
to_csv(df) ==
  [i \in 1..Len(df) |->
     [code  |-> IF df[i].code.na THEN <<>> ELSE df[i].code.v,
      label |-> IF df[i].label.na THEN "" ELSE df[i].label.v]]

\* pd.DataFrame([[new_code, label]]): the new row holds the texts as given
new_row(code, label) == [code |-> Cell(code), label |-> Cell(label)]

\* ------------------------------------------------------- scikit-learn
\* TfidfVectorizer's tokens of one text: lower-cased words of two or more
\* word characters (token_pattern (?u)\b\w\w+\b)
WordTokens ==
  [t \in Tokens \cup NaValues \cup {"NA"} |->
     CASE t = "eval" -> {"eval"}
       [] t = "NA"   -> {"na"}
       [] t = "NULL" -> {"null"}
       [] t = "null" -> {"null"}
       [] t = "NaN"  -> {"nan"}
       [] t = "nan"  -> {"nan"}
       [] t = "None" -> {"none"}
       [] OTHER      -> {}]

TfidfTokens(code) == UNION {WordTokens[code[i]] : i \in 1..Len(code)}

Indices(df) == 1..Len(df)

\* data["label"].value_counts(): NaN is not counted
value_counts(df, l) == Cardinality({i \in Indices(df) : ~df[i].label.na /\ df[i].label.v = l})
LabelsOf(df) == {df[i].label.v : i \in {j \in Indices(df) : ~df[j].label.na}}

RECURSIVE SelectSeq2(_, _)
SelectSeq2(sq, keep) ==
  IF sq = <<>> THEN <<>>
  ELSE (IF keep[1] THEN <<Head(sq)>> ELSE <<>>)
       \o SelectSeq2(Tail(sq), [i \in 1..(Len(sq) - 1) |-> keep[i + 1]])

\* lines 52-53: keep the rows whose label occurs at least MinSupport times
MinSupport == 2
\* (variant with the threshold one too low: once-only labels are kept)
min_support_filter_off_by_one(df) ==
  SelectSeq2(df, [i \in Indices(df) |->
                    ~df[i].label.na /\ value_counts(df, df[i].label.v) >= MinSupport - 1])

min_support_filter(df) ==
  SelectSeq2(df, [i \in Indices(df) |->
                    ~df[i].label.na /\ value_counts(df, df[i].label.v) >= MinSupport])

\* train_test_split(test_size=0.2): n_test = ceil(0.2 * n), n_train = n - n_test
TestShare == 5
n_test_of(n) == (n + TestShare - 1) \div TestShare
n_train_of(n) == n - n_test_of(n)

\* StratifiedShuffleSplit: both parts need at least one row per class
split_possible(df) ==
  LET k == Cardinality(LabelsOf(df))
  IN  /\ \A l \in LabelsOf(df) : value_counts(df, l) >= 2
      /\ n_train_of(Len(df)) >= k
      /\ n_test_of(Len(df)) >= k

\* _approximate_mode(class_counts, n_train): the floor of each class's
\* proportional share, the rest going to the largest remainders (ties at random)
ShareFloor(df, l) == (n_train_of(Len(df)) * value_counts(df, l)) \div Len(df)
ShareRem(df, l) == (n_train_of(Len(df)) * value_counts(df, l)) % Len(df)
RECURSIVE SumFloors(_, _)
SumFloors(df, ls) ==
  IF ls = {} THEN 0
  ELSE LET l == CHOOSE x \in ls : TRUE IN ShareFloor(df, l) + SumFloors(df, ls \ {l})

TrainCounts(df) ==
  LET ls == LabelsOf(df)
      need == n_train_of(Len(df)) - SumFloors(df, ls)
  IN  { [l \in ls |-> ShareFloor(df, l) + (IF l \in A THEN 1 ELSE 0)] :
        A \in { B \in SUBSET ls :
                  /\ Cardinality(B) = need
                  /\ \A a \in B, o \in ls \ B : ShareRem(df, a) >= ShareRem(df, o) } }

\* the train parts the stratified split can return (as index sets)
TrainParts(df) ==
  { S \in SUBSET Indices(df) :
      \E c \in TrainCounts(df) :
        \A l \in LabelsOf(df) :
          Cardinality({i \in S : df[i].label.v = l}) = c[l] }

\* TfidfVectorizer.fit_transform / transform raise ValueError on a NaN document,
\* fit_transform also on an empty vocabulary
HasNaDoc(df, S) == \E i \in S : df[i].code.na
Vocabulary(df, S) == UNION {TfidfTokens(df[i].code.v) : i \in {j \in S : ~df[j].code.na}}
HasNaLabel(df, S) == \E i \in S : df[i].label.na

NoModel == [exists |-> FALSE, run |-> 0, n_features |-> 0, classes |-> {}]
NoVectorizer == [exists |-> FALSE, run |-> 0, vocabulary |-> {}]
NoMetrics == [exists |-> FALSE, run |-> 0]
NoFit == [model |-> NoModel, vectorizer |-> NoVectorizer]

\* the pair fitted by one run on the rows S of df
FitPair(run, df, S) ==
  [model |-> [exists |-> TRUE, run |-> run,
              n_features |-> Cardinality(Vocabulary(df, S)),
              classes |-> {df[i].label.v : i \in S}],
   vectorizer |-> [exists |-> TRUE, run |-> run, vocabulary |-> Vocabulary(df, S)]]

\* ================================================================ STATE
Procs == {"s1", "s2"}          \* browser sessions, each runs main() on its own thread

VARIABLES
  dataset_file,    \* DATASET_FILE
  model_file,      \* ML_MODEL_FILE
  vector_file,     \* VECTOR_FILE
  metrics_file,    \* METRICS_FILE
  calls,           \* handler invocations so far (numbers the training runs)
  pc,              \* per session: the statement the handler is at
  df,              \* per session: local df / data
  fit,             \* per session: local model and vectorizer
  arg,             \* per session: the handler's arguments
  outcome,         \* per session: how the last handler ended
  fstec_file,      \* FSTEC_DB_FILE
  old_store,       \* history: the list the store file held when it was last truncated
  new_db,          \* per session: the list update_fstec_db is about to write
  loaded,          \* per session: what load_ml_model has read so far
  report,          \* per session: the three verdicts main() has written
  ast_code, ast_verdict

vars == <<dataset_file, model_file, vector_file, metrics_file, calls, pc, df, fit,
          arg, outcome, fstec_file, old_store, new_db, loaded, report, ast_code,
          ast_verdict>>

files == <<dataset_file, model_file, vector_file, metrics_file>>
rule_vars == <<ast_code, ast_verdict>>
detect_vars == <<fstec_file, old_store, new_db, loaded, report>>

NoArg == [code |-> <<>>, label |-> "", run |-> 0]

\* ------------------------------------------------- train_ml_model (44-79)
\* lines 47-68: what one call computes from the dataset file before it writes
train_results(file, run) ==
  IF ~file.exists THEN {[outcome |-> "DatasetUnavailable", data |-> <<>>, fit |-> NoFit]}
  ELSE
    LET data == min_support_filter(read_csv(file.rows))
        fail(o) == {[outcome |-> o, data |-> data, fit |-> NoFit]}
    IN  IF Cardinality(LabelsOf(data)) < 2 THEN fail("InsufficientClassDiversity")
        ELSE IF ~split_possible(data) THEN fail("ValueError")
        ELSE UNION {
               IF HasNaDoc(data, Indices(data)) \/ Vocabulary(data, S) = {}
               THEN fail("ValueError")
               ELSE {[outcome |-> "fitted", data |-> data, fit |-> FitPair(run, data, S)]}
               : S \in TrainParts(data) }

TrainStart(p) ==
  /\ pc[p] = "idle"
  /\ calls < MaxCalls
  /\ calls' = calls + 1
  /\ \E r \in train_results(dataset_file, calls + 1) :
       /\ df' = [df EXCEPT ![p] = IF r.outcome = "fitted" THEN r.data ELSE <<>>]
       /\ fit' = [fit EXCEPT ![p] = r.fit]
       /\ outcome' = [outcome EXCEPT ![p] = r.outcome]
       /\ pc' = [pc EXCEPT ![p] = IF r.outcome = "fitted" THEN "train_dump_model" ELSE "idle"]
  /\ arg' = [arg EXCEPT ![p] = [NoArg EXCEPT !.run = calls + 1]]
  /\ UNCHANGED <<files, rule_vars, detect_vars>>

\* line 70
TrainDumpModel(p) ==
  /\ pc[p] = "train_dump_model"
  /\ model_file' = fit[p].model
  /\ pc' = [pc EXCEPT ![p] = "train_dump_vectorizer"]
  /\ UNCHANGED <<dataset_file, vector_file, metrics_file, calls, df, fit, arg, outcome, rule_vars, detect_vars>>

\* line 71
TrainDumpVectorizer(p) ==
  /\ pc[p] = "train_dump_vectorizer"
  /\ vector_file' = fit[p].vectorizer
  /\ pc' = [pc EXCEPT ![p] = "train_metrics"]
  /\ UNCHANGED <<dataset_file, model_file, metrics_file, calls, df, fit, arg, outcome, rule_vars, detect_vars>>

\* lines 73-79
TrainMetrics(p) ==
  /\ pc[p] = "train_metrics"
  /\ metrics_file' = [exists |-> TRUE, run |-> fit[p].model.run]
  /\ pc' = [pc EXCEPT ![p] = "idle"]
  /\ outcome' = [outcome EXCEPT ![p] = "trained"]
  /\ df' = [df EXCEPT ![p] = <<>>]
  /\ fit' = [fit EXCEPT ![p] = NoFit]
  /\ UNCHANGED <<dataset_file, model_file, vector_file, calls, arg, rule_vars, detect_vars>>

\* --------------------------------------------- auto_retrain_model (82-100)
\* lines 83-89
RetrainStart(p) ==
  /\ pc[p] = "idle"
  /\ calls < MaxCalls
  /\ Len(dataset_file.rows) < MaxData
  /\ calls' = calls + 1
  /\ \E r \in FeedbackRows :
       /\ arg' = [arg EXCEPT ![p] = [code |-> r.code, label |-> r.label, run |-> calls + 1]]
       /\ df' = [df EXCEPT ![p] =
                   (IF dataset_file.exists THEN read_csv(dataset_file.rows) ELSE <<>>)
                   \o <<new_row(r.code, r.label)>>]
  /\ pc' = [pc EXCEPT ![p] = "retrain_to_csv"]
  /\ outcome' = [outcome EXCEPT ![p] = "running"]
  /\ UNCHANGED <<files, fit, rule_vars, detect_vars>>

\* line 90
RetrainToCsv(p) ==
  /\ pc[p] = "retrain_to_csv"
  /\ dataset_file' = DatasetOf(to_csv(df[p]))
  /\ pc' = [pc EXCEPT ![p] = "retrain_fit"]
  /\ UNCHANGED <<model_file, vector_file, metrics_file, calls, df, fit, arg, outcome, rule_vars, detect_vars>>

\* lines 92-97: fit on every row; ValueError on a NaN document or label and on
\* an empty vocabulary
RetrainFit(p) ==
  /\ pc[p] = "retrain_fit"
  /\ LET all == Indices(df[p])
         bad == HasNaDoc(df[p], all) \/ HasNaLabel(df[p], all) \/ Vocabulary(df[p], all) = {}
     IN  /\ fit' = [fit EXCEPT ![p] = IF bad THEN NoFit ELSE FitPair(arg[p].run, df[p], all)]
         /\ pc' = [pc EXCEPT ![p] = IF bad THEN "idle" ELSE "retrain_dump_model"]
         /\ outcome' = [outcome EXCEPT ![p] = IF bad THEN "ValueError" ELSE "fitted"]
         /\ df' = [df EXCEPT ![p] = IF bad THEN <<>> ELSE df[p]]
  /\ UNCHANGED <<files, calls, arg, rule_vars, detect_vars>>

\* line 99
RetrainDumpModel(p) ==
  /\ pc[p] = "retrain_dump_model"
  /\ model_file' = fit[p].model
  /\ pc' = [pc EXCEPT ![p] = "retrain_dump_vectorizer"]
  /\ UNCHANGED <<dataset_file, vector_file, metrics_file, calls, df, fit, arg, outcome, rule_vars, detect_vars>>

\* line 100
RetrainDumpVectorizer(p) ==
  /\ pc[p] = "retrain_dump_vectorizer"
  /\ vector_file' = fit[p].vectorizer
  /\ pc' = [pc EXCEPT ![p] = "idle"]
  /\ outcome' = [outcome EXCEPT ![p] = "retrained"]
  /\ df' = [df EXCEPT ![p] = <<>>]
  /\ fit' = [fit EXCEPT ![p] = NoFit]
  /\ UNCHANGED <<dataset_file, model_file, metrics_file, calls, arg, rule_vars, detect_vars>>

\* ------------------------------------------------------ signature store
\* hashlib.sha256(text).hexdigest(): distinct texts have distinct digests
Sha256(code) == [digest_of |-> code]
NoHash == [digest_of |-> <<"-">>]

\* a JSON object of the store: the keys it has, and its pattern and hash values
Vuln(fields, pattern, hash) == [fields |-> fields, pattern |-> pattern, hash |-> hash]
RecordFields == {"pattern", "description", "CVE", "severity"}
FullVuln(pattern) == Vuln(RecordFields, pattern, NoHash)

NoStore == [exists |-> FALSE, complete |-> FALSE, records |-> <<>>]
StoreOf(records) == [exists |-> TRUE, complete |-> TRUE, records |-> records]
\* the file between open(..., "w") and the end of json.dump: a prefix of the text
PartialStore(records) == [exists |-> TRUE, complete |-> FALSE, records |-> records]

\* what requests.get(api_url) can answer
Responses ==
  { [status |-> 200, kind |-> "list", items |-> <<FullVuln(EvalCode)>>],
    [status |-> 200, kind |-> "list", items |-> <<FullVuln(EvalCode), FullVuln(NaCode)>>],
    [status |-> 200, kind |-> "list",
     items |-> <<Vuln(RecordFields \ {"description"}, EvalCode, NoHash)>>],
    [status |-> 200, kind |-> "list",
     items |-> <<Vuln(RecordFields \ {"pattern"}, <<>>, NoHash)>>],
    [status |-> 200, kind |-> "object", items |-> <<>>],
    [status |-> 500, kind |-> "list", items |-> <<>>],
    [status |-> 0, kind |-> "exception", items |-> <<>>] }

\* lines 166-168
attach_hashes(items) ==
  [i \in 1..Len(items) |->
     IF "pattern" \in items[i].fields
     THEN Vuln(items[i].fields \cup {"hash"}, items[i].pattern, Sha256(items[i].pattern))
     ELSE items[i]]

\* lines 132-140
load_fstec_db(file) ==
  IF file.exists /\ file.complete THEN file.records ELSE <<>>

\* lines 146-154 on the list load_fstec_db returned
FirstMatch(db, h) ==
  LET hits == {i \in 1..Len(db) : "hash" \in db[i].fields /\ db[i].hash = h}
  IN  IF hits = {} THEN 0 ELSE CHOOSE i \in hits : \A j \in hits : i <= j

compare_result(db, code_snippet) ==
  LET i == FirstMatch(db, Sha256(code_snippet))
  IN  IF i = 0 THEN "NoMatch"
      ELSE IF {"description", "CVE", "severity"} \subseteq db[i].fields THEN "Match"
      ELSE "KeyError"

\* lines 160-168
UpdateFetch(p) ==
  /\ pc[p] = "idle"
  /\ \A q \in Procs : pc[q] \notin {"update_open", "update_dump", "update_close"}
  /\ \E resp \in Responses :
       IF resp.status = 200 /\ resp.kind = "list"
       THEN /\ new_db' = [new_db EXCEPT ![p] = attach_hashes(resp.items)]
            /\ pc' = [pc EXCEPT ![p] = "update_open"]
            /\ outcome' = [outcome EXCEPT ![p] = "running"]
       ELSE /\ new_db' = [new_db EXCEPT ![p] = <<>>]
            /\ pc' = [pc EXCEPT ![p] = "idle"]
            /\ outcome' = [outcome EXCEPT ![p] =
                 IF resp.kind = "exception" THEN "RequestError"
                 ELSE IF resp.status # 200 THEN "HttpError" ELSE "NotAList"]
  /\ UNCHANGED <<files, calls, df, fit, arg, fstec_file, old_store, loaded, report, rule_vars>>

\* line 169, open(FSTEC_DB_FILE, "w"): the file is truncated
UpdateOpen(p) ==
  /\ pc[p] = "update_open"
  /\ fstec_file' = PartialStore(<<>>)
  /\ old_store' = load_fstec_db(fstec_file)
  /\ pc' = [pc EXCEPT ![p] = "update_dump"]
  /\ UNCHANGED <<files, calls, df, fit, arg, outcome, new_db, loaded, report, rule_vars>>

\* line 169, json.dump: the writer's buffer may reach the file before the end
UpdateDump(p) ==
  /\ pc[p] = "update_dump"
  /\ \E k \in 1..Len(new_db[p]) :
       /\ k < Len(new_db[p])
       /\ fstec_file' = PartialStore(SubSeq(new_db[p], 1, k))
  /\ pc' = [pc EXCEPT ![p] = "update_close"]
  /\ UNCHANGED <<files, calls, df, fit, arg, outcome, old_store, new_db, loaded, report, rule_vars>>

\* line 169, the file object is released: the whole text is in the file
UpdateClose(p) ==
  /\ pc[p] \in {"update_dump", "update_close"}
  /\ fstec_file' = StoreOf(new_db[p])
  /\ pc' = [pc EXCEPT ![p] = "idle"]
  /\ outcome' = [outcome EXCEPT ![p] = "updated"]
  /\ UNCHANGED <<files, calls, df, fit, arg, old_store, new_db, loaded, report, rule_vars>>

\* ------------------------------------------ main, "Анализ кода" (211-216)
NoReport == [ml |-> "none", rule |-> "none", fstec |-> "none"]
DetectCodes == {EvalCode, <<"f", "(", ")">>, <<"eval", "(">>}

\* lines 212-214
DetectStart(p) ==
  /\ pc[p] = "idle"
  /\ \E c \in DetectCodes : arg' = [arg EXCEPT ![p] = [code |-> c, label |-> "", run |-> 0]]
  /\ report' = [report EXCEPT ![p] = NoReport]
  /\ loaded' = [loaded EXCEPT ![p] = NoFit]
  /\ outcome' = [outcome EXCEPT ![p] = "running"]
  /\ pc' = [pc EXCEPT ![p] = "load_model"]
  /\ UNCHANGED <<files, calls, df, fit, fstec_file, old_store, new_db, rule_vars>>

\* line 105, joblib.load(ML_MODEL_FILE); FileNotFoundError ends at lines 106-108, 113-114
DetectLoadModel(p) ==
  /\ pc[p] = "load_model"
  /\ IF model_file.exists
     THEN /\ loaded' = [loaded EXCEPT ![p].model = model_file]
          /\ pc' = [pc EXCEPT ![p] = "load_vectorizer"]
          /\ UNCHANGED report
     ELSE /\ report' = [report EXCEPT ![p].ml = "ModelLoadError"]
          /\ pc' = [pc EXCEPT ![p] = "ast"]
          /\ UNCHANGED loaded
  /\ UNCHANGED <<files, calls, df, fit, arg, outcome, fstec_file, old_store, new_db, rule_vars>>

\* lines 115-117 on a loaded pair: the results predict can give; transform yields
\* one column per vocabulary entry and predict raises ValueError unless that
\* is the column count the classifier was fitted on
ml_results(model, vectorizer) ==
  IF Cardinality(vectorizer.vocabulary) # model.n_features THEN {"ValueError"}
  ELSE {IF c = "safe" THEN "CodeSafe" ELSE "VulnerabilityFound" : c \in model.classes}

\* line 105, joblib.load(VECTOR_FILE), then lines 113-117 and the st.write of 214
DetectLoadVectorizer(p) ==
  /\ pc[p] = "load_vectorizer"
  /\ IF vector_file.exists
     THEN /\ loaded' = [loaded EXCEPT ![p].vectorizer = vector_file]
          /\ \E r \in ml_results(loaded[p].model, vector_file) :
               IF r = "ValueError"
               THEN /\ pc' = [pc EXCEPT ![p] = "idle"]
                    /\ outcome' = [outcome EXCEPT ![p] = "ValueError"]
                    /\ UNCHANGED report
               ELSE /\ pc' = [pc EXCEPT ![p] = "ast"]
                    /\ report' = [report EXCEPT ![p].ml = r]
                    /\ UNCHANGED outcome
     ELSE /\ report' = [report EXCEPT ![p].ml = "ModelLoadError"]
          /\ pc' = [pc EXCEPT ![p] = "ast"]
          /\ UNCHANGED <<loaded, outcome>>
  /\ UNCHANGED <<files, calls, df, fit, arg, fstec_file, old_store, new_db, rule_vars>>

\* line 215
DetectAst(p) ==
  /\ pc[p] = "ast"
  /\ report' = [report EXCEPT ![p].rule = analyze_code_with_ast(arg[p].code)]
  /\ pc' = [pc EXCEPT ![p] = "fstec"]
  /\ UNCHANGED <<files, calls, df, fit, arg, outcome, fstec_file, old_store, new_db, loaded, rule_vars>>

\* line 216: compare_with_fstec reads the store file once (line 136)
DetectFstec(p) ==
  /\ pc[p] = "fstec"
  /\ LET r == compare_result(load_fstec_db(fstec_file), arg[p].code)
     IN  IF r = "KeyError"
         THEN /\ outcome' = [outcome EXCEPT ![p] = "KeyError"]
              /\ UNCHANGED report
         ELSE /\ outcome' = [outcome EXCEPT ![p] = "reported"]
              /\ report' = [report EXCEPT ![p].fstec = r]
  /\ pc' = [pc EXCEPT ![p] = "idle"]
  /\ UNCHANGED <<files, calls, df, fit, arg, fstec_file, old_store, new_db, loaded, rule_vars>>

\* ------------------------------------------------------------- rule engine
InitRule ==
  /\ ast_code = <<>>
  /\ ast_verdict = "none"

InitSessions ==
  /\ calls = 0
  /\ pc = [p \in Procs |-> "idle"]
  /\ df = [p \in Procs |-> <<>>]
  /\ fit = [p \in Procs |-> NoFit]
  /\ arg = [p \in Procs |-> NoArg]
  /\ outcome = [p \in Procs |-> "none"]
  /\ new_db = [p \in Procs |-> <<>>]
  /\ loaded = [p \in Procs |-> NoFit]
  /\ report = [p \in Procs |-> NoReport]

InitFiles ==
  /\ dataset_file = NoDataset
  /\ model_file = NoModel
  /\ vector_file = NoVectorizer
  /\ metrics_file = NoMetrics
  /\ fstec_file = NoStore
  /\ old_store = <<>>

pipeline_vars == <<dataset_file, model_file, vector_file, metrics_file, calls, pc, df, fit,
                   arg, outcome, fstec_file, old_store, new_db, loaded, report>>


\* the user extends the text in the input area (line 212)
EnterCode ==
  /\ Len(ast_code) < MaxLen
  /\ \E t \in Tokens : ast_code' = Append(ast_code, t)
  /\ ast_verdict' = "none"
  /\ UNCHANGED pipeline_vars

\* the button of line 213 runs the rule engine on the text (line 215)
AnalyzeAst ==
  /\ ast_verdict = "none"
  /\ ast_verdict' = analyze_code_with_ast(ast_code)
  /\ UNCHANGED <<ast_code, pipeline_vars>>

NextRule == EnterCode \/ AnalyzeAst

InitRuleEngine == InitFiles /\ InitSessions /\ InitRule

SpecRule == InitRuleEngine /\ [][NextRule]_vars

\* ====================================== one session, one handler at a time
RECURSIVE RowSeqs(_)
RowSeqs(n) ==
  IF n = 0 THEN {<<>>}
  ELSE LET shorter == RowSeqs(n - 1)
       IN  shorter \cup {Append(sq, r) : sq \in {t \in shorter : Len(t) = n - 1}, r \in FeedbackRows}

\* the dataset file of a deployment: none yet, or any table of at most MaxData rows
InitSeq ==
  /\ dataset_file \in {NoDataset} \cup {DatasetOf(rows) : rows \in RowSeqs(MaxData)}
  /\ model_file = NoModel
  /\ vector_file = NoVectorizer
  /\ metrics_file = NoMetrics
  /\ fstec_file = NoStore
  /\ old_store = <<>>
  /\ InitSessions
  /\ InitRule

NextSeq ==
  \/ TrainStart("s1")
  \/ TrainDumpModel("s1")
  \/ TrainDumpVectorizer("s1")
  \/ TrainMetrics("s1")
  \/ RetrainStart("s1")
  \/ RetrainToCsv("s1")
  \/ RetrainFit("s1")
  \/ RetrainDumpModel("s1")
  \/ RetrainDumpVectorizer("s1")

SpecSeq == InitSeq /\ [][NextSeq]_vars

\* ============================== two sessions retraining and analysing at once
InitRace == InitFiles /\ InitSessions /\ InitRule

NextRace ==
  \E p \in Procs :
    \/ RetrainStart(p)
    \/ RetrainToCsv(p)
    \/ RetrainFit(p)
    \/ RetrainDumpModel(p)
    \/ RetrainDumpVectorizer(p)
    \/ DetectStart(p)
    \/ DetectLoadModel(p)
    \/ DetectLoadVectorizer(p)
    \/ DetectAst(p)
    \/ DetectFstec(p)

SpecRace == InitRace /\ [][NextRace]_vars

\* ================== one session refreshing and retraining, one analysing
InitDetect == InitFiles /\ InitSessions /\ InitRule

NextDetect ==
  \/ UpdateFetch("s1")
  \/ UpdateOpen("s1")
  \/ UpdateDump("s1")
  \/ UpdateClose("s1")
  \/ RetrainStart("s1")
  \/ RetrainToCsv("s1")
  \/ RetrainFit("s1")
  \/ RetrainDumpModel("s1")
  \/ RetrainDumpVectorizer("s1")
  \/ DetectStart("s2")
  \/ DetectLoadModel("s2")
  \/ DetectLoadVectorizer("s2")
  \/ DetectAst("s2")
  \/ DetectFstec("s2")

SpecDetect == InitDetect /\ [][NextDetect]_vars

\* ------------------------------------------------------------------ claims
RawCount(rows, l) == Cardinality({i \in 1..Len(rows) : rows[i].label = l})
SupportedLabels(rows) == {l \in {rows[i].label : i \in 1..Len(rows)} : RawCount(rows, l) >= 2}
TrainFailures == {"DatasetUnavailable", "InsufficientClassDiversity"}

C2_AppendKeepsEarlierRecords ==
  [][\A p \in Procs :
       RetrainToCsv(p)
       => /\ dataset_file'.exists
          /\ dataset_file'.rows =
               Append(dataset_file.rows, [code |-> arg[p].code, label |-> arg[p].label])]_vars

\* C5 (as claimed): while and after a training run r writes, the classifier,
\* the vocabulary and the metrics on disk are all of run r or none of them is.
TrainWriting == {"train_dump_model", "train_dump_vectorizer", "train_metrics"}
C5_ArtifactAndMetricsTogether ==
  \A p \in Procs :
    pc[p] \in TrainWriting
    => LET r == arg[p].run
       IN  \/ (model_file.run = r /\ vector_file.run = r /\ metrics_file.run = r)
           \/ (model_file.run # r /\ vector_file.run # r /\ metrics_file.run # r)

\* C6 (as claimed): on a dataset with at least 2 labels that each occur at
\* least twice, train_ml_model gets through the filter, the split and the fit.
C6_TrainSucceeds ==
  [][\A p \in Procs :
       (dataset_file.exists /\ Cardinality(SupportedLabels(dataset_file.rows)) >= 2
        /\ TrainStart(p))
       => outcome'[p] = "fitted"]_vars

\* C1 (as claimed): the classifier and the vocabulary one load_ml_model call
\* reads come from the same training run.
C1_LoadedPairFromOneRun ==
  \A p \in Procs :
    (loaded[p].model.exists /\ loaded[p].vectorizer.exists)
    => loaded[p].model.run = loaded[p].vectorizer.run

\* C3 (as claimed): once no feedback call is in flight, the dataset file holds
\* one row for every feedback call made (it starts absent): no append is lost.
Retraining ==
  {"retrain_to_csv", "retrain_fit", "retrain_dump_model", "retrain_dump_vectorizer"}
C3_NoLostAppend ==
  (\A p \in Procs : pc[p] \notin Retraining) => Len(dataset_file.rows) = calls

\* C7 (as claimed): an analysis that has ended, however it ended, has written
\* all three verdicts.
DetectEnded == {"reported", "ValueError", "KeyError"}
C7_AllThreeVerdicts ==
  \A p \in Procs :
    (pc[p] = "idle" /\ outcome[p] \in DetectEnded /\ arg[p].run = 0)
    => /\ report[p].ml # "none"
       /\ report[p].rule # "none"
       /\ report[p].fstec # "none"

\* C8 (as claimed): a lookup gives the result of the whole store as it was
\* before the refresh in flight, or as it is after it.
StoreVersions ==
  IF fstec_file.exists /\ ~fstec_file.complete
  THEN {old_store} \cup {new_db[q] : q \in {r \in Procs : pc[r] \in {"update_dump", "update_close"}}}
  ELSE {load_fstec_db(fstec_file)}
C8_LookupSeesWholeStore ==
  [][\A p \in Procs :
       DetectFstec(p)
       => (IF outcome'[p] = "KeyError" THEN "KeyError" ELSE report'[p].fstec)
            \in {compare_result(db, arg[p].code) : db \in StoreVersions}]_vars

\* C9 (as claimed): every record of a completely written store has all four
\* fields of a signature record and the hash of its own pattern.
C9_StoredRecordsHashed ==
  (fstec_file.exists /\ fstec_file.complete)
  => \A i \in 1..Len(fstec_file.records) :
       LET v == fstec_file.records[i]
       IN  /\ RecordFields \cup {"hash"} \subseteq v.fields
           /\ v.hash = Sha256(v.pattern)

\* C10: the rule engine answers ParseError exactly on texts that do not parse,
\* Flagged exactly on parsed texts with a call of the bare name eval at any
\* depth, Clean on every other text.
RECURSIVE HasBareEvalCall(_)
HasBareEvalCall(n) ==
  CASE n.type = "Module"    -> \E i \in 1..Len(n.body) : HasBareEvalCall(n.body[i])
    [] n.type = "Expr"      -> HasBareEvalCall(n.value)
    [] n.type = "Attribute" -> HasBareEvalCall(n.value)
    [] n.type = "Call"      ->
         \/ (n.func.type = "Name" /\ n.func.id = "eval")
         \/ HasBareEvalCall(n.func)
         \/ \E i \in 1..Len(n.args) : HasBareEvalCall(n.args[i])
    [] OTHER                -> FALSE

Balanced(code) ==
  Cardinality({i \in 1..Len(code) : code[i] = "("})
    = Cardinality({i \in 1..Len(code) : code[i] = ")"})

C10_RuleVerdict ==
  ast_verdict # "none"
  => LET p == ast_parse(ast_code)
     IN  /\ ast_verdict \in {"ParseError", "Flagged", "Clean"}
         /\ (ast_verdict = "ParseError") = ~p.ok
         /\ ~Balanced(ast_code) => ast_verdict = "ParseError"
         /\ p.ok => ((ast_verdict = "Flagged") = HasBareEvalCall(p.tree))
         /\ ast_code = <<"eval", "(", "f", ")">> => ast_verdict = "Flagged"
         /\ ast_code = <<"f", "(", "f", ")">> => ast_verdict = "Clean"
         /\ ast_code = <<"f", ".", "eval", "(", "f", ")">> => ast_verdict = "Clean"
         /\ ast_code = <<"eval", "(", "f">> => ast_verdict = "ParseError"

\* a call of eval nested in the argument of another call, found and flagged
C10_Witness ==
  /\ ast_code = <<"f", "(", "eval", "(", ")", ")">>
  /\ ast_verdict = "Flagged"

====
